---- MODULE Spec2Model ----
(***************************************************************************)
(* Real-estate lead-qualification chatbot: the /message handler            *)
(* (controllers/chatbotController.js), the completion client               *)
(* (services/mistralService.js) and the Lead document (models/Lead.js).    *)
(*                                                                         *)
(* Texts are strings; a character is a string of length 1 (SubSeq(s,i,i)). *)
(* JavaScript's undefined is the value `undefined`, a body field that is   *)
(* not a string is `NonString`; neither can be produced by the regular     *)
(* expressions of the program or typed as a message of the model.          *)
(***************************************************************************)
EXTENDS Integers, Sequences, FiniteSets, TLC

(***************************************************************************)
(* Characters and strings (String.prototype, RegExp character classes)     *)
(***************************************************************************)
undefined == "<undefined>"
NonString == "<number>"

Truthy(v) == v # undefined /\ v # ""

Char(s, i) == SubSeq(s, i, i)

LowerAlphabet == "abcdefghijklmnopqrstuvwxyz"
UpperAlphabet == "ABCDEFGHIJKLMNOPQRSTUVWXYZ"
DigitAlphabet == "0123456789"

CharsOf(s) == { Char(s, i) : i \in 1..Len(s) }

LowerChars == CharsOf(LowerAlphabet)
UpperChars == CharsOf(UpperAlphabet)
\* \d
Digits == CharsOf(DigitAlphabet)
\* line terminators: ^ and $ of a /m expression look at them, `.` skips them
LineTerminators == { "\n", "\r" }
\* \s
WhiteSpace == { " ", "\t", "\f" } \cup LineTerminators

ToLowerChar(c) ==
  IF c \in UpperChars
    THEN Char(LowerAlphabet, CHOOSE i \in 1..26 : Char(UpperAlphabet, i) = c)
    ELSE c

ToUpperChar(c) ==
  IF c \in LowerChars
    THEN Char(UpperAlphabet, CHOOSE i \in 1..26 : Char(LowerAlphabet, i) = c)
    ELSE c

\* the recursions over a text halve it, which keeps them shallow
RECURSIVE toLowerCase(_)
toLowerCase(s) ==
  IF Len(s) = 0 THEN ""
  ELSE IF Len(s) = 1 THEN ToLowerChar(s)
  ELSE toLowerCase(SubSeq(s, 1, Len(s) \div 2))
         \o toLowerCase(SubSeq(s, Len(s) \div 2 + 1, Len(s)))

RECURSIVE toUpperCase(_)
toUpperCase(s) ==
  IF Len(s) = 0 THEN ""
  ELSE IF Len(s) = 1 THEN ToUpperChar(s)
  ELSE toUpperCase(SubSeq(s, 1, Len(s) \div 2))
         \o toUpperCase(SubSeq(s, Len(s) \div 2 + 1, Len(s)))

Min(S) == CHOOSE n \in S : \A m \in S : n <= m
Max(S) == CHOOSE n \in S : \A m \in S : n >= m

\* s.substring(from) for a 1-based from
From(s, i) == SubSeq(s, i, Len(s))

\* s.trim()
trim(s) ==
  LET kept == { i \in 1..Len(s) : Char(s, i) \notin WhiteSpace }
  IN  IF kept = {} THEN "" ELSE SubSeq(s, Min(kept), Max(kept))

\* the literal p (lower case) stands in s at position i, letter case ignored (/i)
LiteralAtI(s, p, i) ==
  /\ i + Len(p) - 1 <= Len(s)
  /\ toLowerCase(SubSeq(s, i, i + Len(p) - 1)) = p

\* s.includes(p)
includes(s, p) == \E i \in 1..(Len(s) - Len(p) + 1) : SubSeq(s, i, i + Len(p) - 1) = p

\* the longest run of characters of class cls that starts at position i
RunFrom(s, i, cls) ==
  LET stops == { j \in i..Len(s) : Char(s, j) \notin cls }
  IN  IF stops = {} THEN SubSeq(s, i, Len(s)) ELSE SubSeq(s, i, Min(stops) - 1)

\* [a-z\s] under /i
NameClass == LowerChars \cup UpperChars \cup WhiteSpace
\* [a-z\s,] under /i
LocationClass == NameClass \cup { "," }
\* [\d,.]
BudgetClass == Digits \cup { ",", "." }

\* A pattern of the shape (?:k1|k2|...) ([cls]+) under /i: the first group of
\* the leftmost match, or undefined when nothing matches.  A match at i is one
\* keyword at i, a space, and at least one character of cls; the group is greedy.
KeywordRunAt(s, keywords, cls, i) ==
  \E k \in keywords :
    /\ LiteralAtI(s, k, i)
    /\ i + Len(k) + 1 <= Len(s)
    /\ Char(s, i + Len(k)) = " "
    /\ Char(s, i + Len(k) + 1) \in cls

KeywordRunMatch(s, keywords, cls) ==
  IF \E i \in 1..Len(s) : KeywordRunAt(s, keywords, cls, i)
    THEN LET i == CHOOSE j \in 1..Len(s) :
                    /\ KeywordRunAt(s, keywords, cls, j)
                    /\ \A h \in 1..(j - 1) : ~KeywordRunAt(s, keywords, cls, h)
             k == CHOOSE w \in keywords : LiteralAtI(s, w, i)
         IN  RunFrom(s, i + Len(k) + 1, cls)
    ELSE undefined

NameKeywords == { "my name is", "i am", "i'm" }
LocationKeywords == { "location", "area", "place", "interested in" }
BudgetKeywords == { "budget", "afford", "looking for", "range", "price" }

\* message.match(/(?:my name is|i am|i'm) ([a-z\s]+)/i)[1]
NameMatch(message) == KeywordRunMatch(message, NameKeywords, NameClass)

\* message.match(/(?:location|area|place|interested in) ([a-z\s,]+)/i)[1]
LocationMatch(message) == KeywordRunMatch(message, LocationKeywords, LocationClass)

\* message.match(/(?:budget|afford|looking for|range|price) [^\d]*(\d+[\d,.]*)/i)[1]:
\* a keyword, a space, any non-digits, then the group: the run of [\d,.] that
\* starts at the first digit after the space.
BudgetAt(s, i) ==
  \E k \in BudgetKeywords :
    /\ LiteralAtI(s, k, i)
    /\ i + Len(k) <= Len(s)
    /\ Char(s, i + Len(k)) = " "
    /\ \E d \in (i + Len(k) + 1)..Len(s) : Char(s, d) \in Digits

BudgetMatch(message) ==
  IF \E i \in 1..Len(message) : BudgetAt(message, i)
    THEN LET i == CHOOSE j \in 1..Len(message) :
                    /\ BudgetAt(message, j)
                    /\ \A h \in 1..(j - 1) : ~BudgetAt(message, h)
             k == CHOOSE w \in BudgetKeywords : LiteralAtI(message, w, i)
             d == CHOOSE e \in (i + Len(k) + 1)..Len(message) :
                    /\ Char(message, e) \in Digits
                    /\ \A h \in (i + Len(k) + 1)..(e - 1) :
                         Char(message, h) \notin Digits
         IN  RunFrom(message, d, BudgetClass)
    ELSE undefined

propertyTypes ==
  << "apartment", "house", "condo", "villa", "flat", "studio", "penthouse", "duplex" >>

\* the first entry of propertyTypes that message.toLowerCase() includes
PropertyTypeMatch(message) ==
  LET lower == toLowerCase(message)
      hits  == { n \in 1..Len(propertyTypes) : includes(lower, propertyTypes[n]) }
  IN  IF hits = {}
        THEN undefined
        ELSE propertyTypes[Min(hits)]

\* info.x is set only under `if (match && match[1])`, and then to match[1].trim()
Captured(group) == IF Truthy(group) THEN trim(group) ELSE undefined

extractUserInfo(message) ==
  [ name              |-> Captured(NameMatch(message)),
    budget            |-> Captured(BudgetMatch(message)),
    preferredLocation |-> Captured(LocationMatch(message)),
    propertyType      |-> PropertyTypeMatch(message) ]

(***************************************************************************)
(* Template responder (chatbotController.js, generateTemplateResponse)     *)
(***************************************************************************)
GreetingTokens == { "hi", "hello", "hey", "greetings" }

\* message.match(/^(hi|hello|hey|greetings)/i)
IsGreeting(message) == \E g \in GreetingTokens : LiteralAtI(message, g, 1)

GreetingReply(leadInfo) ==
  IF Truthy(leadInfo.name)
    THEN "Hello " \o leadInfo.name
           \o "! How can I help you with your real estate search today?"
    ELSE "Hello! I'm your real estate assistant. May I know your name?"

AskNameReply == "Thanks for your message! May I know your name so I can better assist you?"

NiceToMeetReply(name) ==
  "Nice to meet you, " \o name \o "! What kind of property are you looking for?"

AskPropertyTypeReply == "What type of property are you interested in? Apartment, house, condo?"

AskBudgetAfterTypeReply(type) ==
  "Great! I'll help you find a " \o type \o ". Do you have a specific budget in mind?"

AskBudgetReply(leadInfo) ==
  "What's your budget range for the " \o leadInfo.propertyType \o "?"

AskLocationAfterBudgetReply == "Thank you! And do you have a preferred location or area in mind?"

AskLocationReply == "Which area or location are you interested in?"

LocationFoundReply(leadInfo, location) ==
  "Perfect! I'll look for " \o leadInfo.propertyType \o " properties in " \o location
    \o " within your budget. Is there anything specific you're looking for in the property?"

SummaryReply(leadInfo) ==
  "Thank you for providing all the details, " \o leadInfo.name
    \o ". I'll help you find " \o leadInfo.propertyType \o " properties in "
    \o leadInfo.preferredLocation \o " within your budget of " \o leadInfo.budget
    \o ". A real estate agent will contact you soon with some great options."
    \o " Is there anything else you'd like to know?"

DefaultReply == "Thank you for your message. How else can I assist you with your property search?"

\* the template without the branches that look at the lead
generateTemplateResponseByMessage(message, leadInfo) ==
  IF IsGreeting(message) THEN GreetingReply(leadInfo) ELSE DefaultReply

generateTemplateResponse(message, leadInfo) ==
  LET hasName     == Truthy(leadInfo.name)
      hasType     == Truthy(leadInfo.propertyType)
      hasBudget   == Truthy(leadInfo.budget)
      hasLocation == Truthy(leadInfo.preferredLocation)
  IN  IF IsGreeting(message) THEN GreetingReply(leadInfo)
      ELSE IF ~hasName /\ Len(message) > 3 THEN
        IF Truthy(NameMatch(message))
          THEN NiceToMeetReply(trim(NameMatch(message)))
          ELSE AskNameReply
      ELSE IF hasName /\ ~hasType THEN
        IF Truthy(PropertyTypeMatch(message))
          THEN AskBudgetAfterTypeReply(PropertyTypeMatch(message))
          ELSE AskPropertyTypeReply
      ELSE IF hasName /\ hasType /\ ~hasBudget THEN
        IF Truthy(BudgetMatch(message))
          THEN AskLocationAfterBudgetReply
          ELSE AskBudgetReply(leadInfo)
      ELSE IF hasName /\ hasType /\ hasBudget /\ ~hasLocation THEN
        IF Truthy(LocationMatch(message))
          THEN LocationFoundReply(leadInfo, trim(LocationMatch(message)))
          ELSE AskLocationReply
      ELSE IF hasName /\ hasType /\ hasBudget /\ hasLocation THEN SummaryReply(leadInfo)
      ELSE DefaultReply

(***************************************************************************)
(* Response formatter (chatbotController.js, formatNotionStyleResponse)    *)
(***************************************************************************)
\* U+2022, the bullet the formatter writes; no other text of the model holds it
Bullet == "*"

\* ^ of a /m expression
LineStart(s, i) == i = 1 \/ Char(s, i - 1) \in LineTerminators

\* the longest run of `.` (anything but a line terminator) that starts at i
DotRun(s, i) ==
  LET stops == { j \in i..Len(s) : Char(s, j) \in LineTerminators }
  IN  IF stops = {} THEN SubSeq(s, i, Len(s)) ELSE SubSeq(s, i, Min(stops) - 1)

\* response.replace(/\n{2,}/g, '\n\n') from position i on: the text up to the
\* next two newlines is kept, the run of newlines they start becomes two
RECURSIVE ParagraphsFrom(_, _)
ParagraphsFrom(s, i) ==
  LET hits == { j \in i..(Len(s) - 1) : Char(s, j) = "\n" /\ Char(s, j + 1) = "\n" }
  IN  IF hits = {}
        THEN From(s, i)
        ELSE SubSeq(s, i, Min(hits) - 1) \o "\n\n"
               \o ParagraphsFrom(s, Min(hits) + Len(RunFrom(s, Min(hits), { "\n" })))

withParagraphs(s) == ParagraphsFrom(s, 1)

\* where the hyphen of a match of /^\s*-\s(.+)$/m that starts at i stands, or 0
BulletHyphen(s, i) ==
  LET j == i + Len(RunFrom(s, i, WhiteSpace))
  IN  IF /\ LineStart(s, i)
         /\ j + 2 <= Len(s)
         /\ Char(s, j) = "-"
         /\ Char(s, j + 1) \in WhiteSpace
         /\ Char(s, j + 2) \notin LineTerminators
        THEN j
        ELSE 0

\* .replace(/^\s*-\s(.+)$/gm, '<bullet> $1') from position i on: the text up to
\* the next match is kept, the match becomes the bullet, a space and its group
RECURSIVE BulletsFrom(_, _)
BulletsFrom(s, i) ==
  LET hits == { m \in i..Len(s) : BulletHyphen(s, m) # 0 }
  IN  IF hits = {}
        THEN From(s, i)
        ELSE LET j == BulletHyphen(s, Min(hits))
             IN  SubSeq(s, i, Min(hits) - 1) \o Bullet \o " " \o DotRun(s, j + 2)
                   \o BulletsFrom(s, j + 2 + Len(DotRun(s, j + 2)))

withBullets(s) == BulletsFrom(s, 1)

\* the number of # of a match of /^#+\s(.+)$/m that starts at i, or 0
HeadingMarks(s, i) ==
  LET h == Len(RunFrom(s, i, { "#" }))
  IN  IF /\ LineStart(s, i)
         /\ h >= 1
         /\ i + h + 1 <= Len(s)
         /\ Char(s, i + h) \in WhiteSpace
         /\ Char(s, i + h + 1) \notin LineTerminators
        THEN h
        ELSE 0

\* .replace(/^#+\s(.+)$/gm, (match, heading) => heading.toUpperCase()) from i on
RECURSIVE HeadingsFrom(_, _)
HeadingsFrom(s, i) ==
  LET hits == { m \in i..Len(s) : HeadingMarks(s, m) # 0 }
  IN  IF hits = {}
        THEN From(s, i)
        ELSE LET m == Min(hits)
                 h == HeadingMarks(s, m)
             IN  SubSeq(s, i, m - 1) \o toUpperCase(DotRun(s, m + h + 1))
                   \o HeadingsFrom(s, m + h + 1 + Len(DotRun(s, m + h + 1)))

withHeadings(s) == HeadingsFrom(s, 1)

\* the positions of s that hold a question mark
QuestionMarks(s) == { i \in 1..Len(s) : Char(s, i) = "?" }

\* a cut after the last question mark instead of the first
keepLastQuestion(s) ==
  IF Cardinality(QuestionMarks(s)) > 1
    THEN SubSeq(s, 1, Max(QuestionMarks(s)))
    ELSE s

\* s.substring(0, s.indexOf('?') + 1) when s holds more than one question mark
keepFirstQuestion(s) ==
  IF Cardinality(QuestionMarks(s)) > 1
    THEN SubSeq(s, 1, Min(QuestionMarks(s)))
    ELSE s

formatNotionStyleResponse(response) ==
  keepFirstQuestion(withHeadings(withBullets(withParagraphs(response))))

(***************************************************************************)
(* Completion client (mistralService.js)                                   *)
(***************************************************************************)
\* messageHistory.slice(-10)
HistoryWindow == 10

\* a history passed on whole
AllTurns(messageHistory) == messageHistory

LastTurns(messageHistory) ==
  IF Len(messageHistory) <= HistoryWindow
    THEN messageHistory
    ELSE SubSeq(messageHistory, Len(messageHistory) - HistoryWindow + 1, Len(messageHistory))

formatMessageHistory(messageHistory) ==
  [ n \in 1..Len(LastTurns(messageHistory)) |->
      [ role    |-> IF LastTurns(messageHistory)[n].sender = "user" THEN "user" ELSE "assistant",
        content |-> LastTurns(messageHistory)[n].message ] ]

\* U+26A0 U+FE0F, the warning sign of the last paragraph of the system message
WarningSign == "(!)"

NotionGuidelines ==
  "\n\nYou are displayed in a Notion-like interface. Format your responses accordingly with these guidelines:\n"
    \o "- Use clean paragraph breaks for readability\n"
    \o "- Use bullet points (" \o Bullet \o ") for lists\n"
    \o "- You can use simple formatting like UPPERCASE for emphasis\n"
    \o "- Keep responses concise and well-structured\n"
    \o "- Organize information in a clear, hierarchical manner\n"

OneQuestionInstruction ==
  "\n\nIMPORTANT INSTRUCTION: Ask only ONE question at a time. Wait for the user to respond before asking the next question. Do not ask multiple questions in a single response. Focus on getting a complete answer to one question before moving to the next topic. This creates a more natural conversation flow."
    \o "\n\nEven if you have multiple questions in mind, only ask the most important one first. After the user responds, you can ask the next question based on their response. This sequential approach helps create a more engaging and personalized conversation experience."
    \o "\n\nRemember: ONE QUESTION PER RESPONSE - NO EXCEPTIONS."

UserPreferenceInstruction ==
  "\n\n" \o WarningSign
    \o " USER PREFERENCE: The user has specifically requested that you ask only ONE question at a time. This is extremely important. Never combine multiple questions in a single response. After each user reply, choose the next most logical question based on their answer."

\* leadInfo is the context generateResponse builds: the lead's attributes, uiInfo
\* (<< >> when absent, else << the record made of the caller's uiSize >>) and
\* oneQuestionAtATime
createSystemMessage(leadInfo) ==
  [ role    |-> "system",
    content |->
      "You are a helpful real estate assistant. "
        \o "Here is what you know about the client: "
        \o (IF Truthy(leadInfo.name)
              THEN "Their name is " \o leadInfo.name \o ". " ELSE "")
        \o (IF Truthy(leadInfo.budget)
              THEN "Their budget is " \o leadInfo.budget \o ". " ELSE "")
        \o (IF Truthy(leadInfo.preferredLocation)
              THEN "They are interested in properties in " \o leadInfo.preferredLocation \o ". "
              ELSE "")
        \o (IF Truthy(leadInfo.propertyType)
              THEN "They are looking for a " \o leadInfo.propertyType \o ". " ELSE "")
        \o "Use this information to provide personalized assistance. "
        \o (IF leadInfo.uiInfo # << >> /\ leadInfo.uiInfo[1].isNotionStyle
              THEN NotionGuidelines ELSE "")
        \o "Be friendly, professional, and helpful. Your goal is to collect information about their real estate needs and preferences."
        \o OneQuestionInstruction
        \o (IF leadInfo.oneQuestionAtATime THEN UserPreferenceInstruction ELSE "") ]

\* the `messages` of the request body: [systemMessage, ...formattedHistory], the
\* current user message pushed onto formattedHistory first
requestMessages(userMessage, leadInfo, messageHistory) ==
  << createSystemMessage(leadInfo) >>
    \o formatMessageHistory(messageHistory)
    \o << [ role |-> "user", content |-> userMessage ] >>

\* the text the catch block of MistralService.generateResponse returns
ServiceFallbackNotice ==
  "I'm sorry, I'm having trouble connecting to my AI service right now. How else can I help you with your property search?"

(***************************************************************************)
(* What the completion call comes to (outcome.kind):                       *)
(*   "noKey"     this.apiKey is missing: thrown before any request         *)
(*   "text"      2xx, choices[0].message.content is outcome.content        *)
(*   "noContent" 2xx, choices[0].message holds no content                  *)
(*   "badShape"  2xx, no data / choices / choices[0] / message             *)
(*   "status"    axios rejects with error.response (non-2xx)               *)
(*   "transport" axios rejects with error.request (no response, timeout)   *)
(* The result of MistralService.generateResponse: what the promise settles *)
(* to, [threw |-> TRUE] for a rejection.                                   *)
(***************************************************************************)
Returned(value) == [ threw |-> FALSE, value |-> value ]
Thrown == [ threw |-> TRUE, value |-> undefined ]

MistralGenerateResponse(outcome) ==
  CASE outcome.kind = "text"      -> Returned(outcome.content)
    [] outcome.kind = "noContent" -> Returned(undefined)
    [] OTHER                      -> Returned(ServiceFallbackNotice)

(***************************************************************************)
(* generateResponse of the controller, from the point where the service    *)
(* call has settled: a rejection, or a result formatNotionStyleResponse    *)
(* cannot call .replace on, is caught and answered by the template.        *)
(***************************************************************************)
IsString(v) == v # undefined /\ v # NonString

\* generateResponse without its try/catch: what the service gave is passed on
\* as it is when the formatter cannot take it
generateResponseUnguarded(message, leadInfo, serviceResult) ==
  IF serviceResult.threw \/ ~IsString(serviceResult.value)
    THEN undefined
    ELSE formatNotionStyleResponse(serviceResult.value)

generateResponse(message, leadInfo, serviceResult) ==
  IF serviceResult.threw \/ ~IsString(serviceResult.value)
    THEN generateTemplateResponse(message, leadInfo)
    ELSE formatNotionStyleResponse(serviceResult.value)

\* contextWithUiInfo; uiSize is << >> (absent) or << [width, height] >>
contextWithUiInfo(leadInfo, uiSize) ==
  [ name              |-> leadInfo.name,
    budget            |-> leadInfo.budget,
    preferredLocation |-> leadInfo.preferredLocation,
    propertyType      |-> leadInfo.propertyType,
    uiInfo            |-> IF uiSize # << >>
                            THEN << [ width |-> uiSize[1].width, height |-> uiSize[1].height,
                                      isNotionStyle |-> TRUE ] >>
                            ELSE << >>,
    oneQuestionAtATime |-> TRUE ]

(***************************************************************************)
(* The /message handler (chatbotController.js, processMessage)             *)
(*                                                                         *)
(* r names one invocation of the handler in flight.  An action is the code *)
(* between two awaits.  A lead document is its _id, its four attributes    *)
(* and its messageHistory; phone and the timestamps are never read or      *)
(* written by the handler.  A userId of 0 is a request without userId.     *)
(***************************************************************************)
\* how many requests are received in all
MaxReqs == 2

\* how many invocations can be in flight
MaxInFlight == 2

Reqs == 1..MaxInFlight

\* an id no lead was ever created with
StaleId == MaxReqs + 1

Messages ==
  { "hi", "i am  ", "my name is Alice", "i am Bob budget 5 area x house" }

\* req.body.message: a text, "" or undefined (both falsy), or not a string
BodyMessages == Messages \cup { "", undefined, NonString }

\* req.body.uiSize: << >> when absent
UiSizes == { << [ width |-> 800, height |-> 600 ] >> }

\* choices[0].message.content of a well-formed completion
Completions == { "# Options\n- a flat? - a house?" }

Outcomes ==
  [ kind : { "text" }, content : Completions ]
    \cup [ kind : { "noContent", "badShape", "status", "transport" }, content : { undefined } ]

NoKeyOutcome == [ kind |-> "noKey", content |-> undefined ]
NotCalled == [ kind |-> "none", content |-> undefined ]
Pending == [ kind |-> "pending", content |-> undefined ]

VARIABLES
  apiKey,       \* process.env.MISTRAL_API_KEY as the service read it
  store,        \* the leads collection: _id -> document
  nextId,       \* the _id the next `new Lead()` gets
  served,       \* the number of requests received so far
  pc,           \* where invocation r stands
  body,         \* its req.body
  loaded,       \* how it got its lead, and the document as it got it
  lead,         \* the document it works on
  completion,   \* its generateResponse call: not made, pending, or what it came to
  timer,        \* its 15 s timer
  race,         \* its Promise.race: pending, or which promise it took
  posted,       \* the `messages` it posted to the completion endpoint
  botResponse,  \* its botResponse
  saved,        \* the documents it handed to save()
  saveResult,   \* its save() call: not made, pending, ok or failed
  responses,    \* the HTTP responses it sent
  call          \* a single call of one function of the program, by itself

reqVars ==
  << pc, body, loaded, lead, completion, timer, race, posted, botResponse, saved,
     saveResult, responses >>

vars == << apiKey, store, nextId, served, reqVars, call >>

NewLead(id) ==
  [ _id |-> id, name |-> undefined, budget |-> undefined,
    preferredLocation |-> undefined, propertyType |-> undefined,
    messageHistory |-> << >> ]

NoLead == NewLead(0)

NotLoaded == [ how |-> "none", doc |-> NoLead ]

NoBody == [ message |-> undefined, userId |-> 0, uiSize |-> << >> ]

NoCall ==
  [ fn |-> "none", message |-> undefined, leadInfo |-> NoLead, result |-> undefined ]

\* the server has started: no lead is stored, no request was received
InitServer ==
  /\ apiKey \in { undefined, "key" }
  /\ store = << >>
  /\ nextId = 1
  /\ served = 0
  /\ pc = [ r \in Reqs |-> "idle" ]
  /\ body = [ r \in Reqs |-> NoBody ]
  /\ loaded = [ r \in Reqs |-> NotLoaded ]
  /\ lead = [ r \in Reqs |-> NoLead ]
  /\ completion = [ r \in Reqs |-> NotCalled ]
  /\ timer = [ r \in Reqs |-> "none" ]
  /\ race = [ r \in Reqs |-> "none" ]
  /\ posted = [ r \in Reqs |-> << >> ]
  /\ botResponse = [ r \in Reqs |-> undefined ]
  /\ saved = [ r \in Reqs |-> << >> ]
  /\ saveResult = [ r \in Reqs |-> "none" ]
  /\ responses = [ r \in Reqs |-> << >> ]

Init == InitServer /\ call = NoCall

\* res.status(status).json({...}); a field the body does not carry is undefined (0 for userId)
Json(status, success, response, userId, warning, error) ==
  [ status |-> status, success |-> success, response |-> response,
    userId |-> userId, warning |-> warning, error |-> error ]

\* line 155
BadRequest == Json(400, FALSE, undefined, 0, undefined, "Message is required")
\* lines 181-185
StoreUnavailable == Json(503, FALSE, undefined, 0, undefined, "Database connection error")
\* lines 248-252
ServerError == Json(500, FALSE, undefined, 0, undefined, "Server error")

Respond(r, json) == responses' = [ responses EXCEPT ![r] = Append(@, json) ]

\* the merge without its four `if`s: every attribute takes the extracted value
mergeExtractedAlways(doc, info) ==
  [ doc EXCEPT
      !.name              = info.name,
      !.budget            = info.budget,
      !.preferredLocation = info.preferredLocation,
      !.propertyType      = info.propertyType ]

\* lines 188-192: an attribute is assigned only when the extracted value is truthy
mergeExtracted(doc, info) ==
  [ doc EXCEPT
      !.name              = IF Truthy(info.name) THEN info.name ELSE @,
      !.budget            = IF Truthy(info.budget) THEN info.budget ELSE @,
      !.preferredLocation = IF Truthy(info.preferredLocation) THEN info.preferredLocation ELSE @,
      !.propertyType      = IF Truthy(info.propertyType) THEN info.propertyType ELSE @ ]

\* an assignment of a one-turn history in place of the push
pushTurnReplacing(doc, sender, message) ==
  [ doc EXCEPT !.messageHistory = << [ sender |-> sender, message |-> message ] >> ]

\* lead.messageHistory.push({ sender, message })
pushTurn(doc, sender, message) ==
  [ doc EXCEPT !.messageHistory = Append(@, [ sender |-> sender, message |-> message ]) ]

\* nothing of invocation r is left to run: it answered (or never started) and
\* both promises of its race have settled
Finished(r) ==
  /\ pc[r] \in { "idle", "done" }
  /\ timer[r] # "armed"
  /\ completion[r] # Pending

\* requests are served one at a time: the next one is received once the one
\* before has run to its end, and takes its place
Serial(r) == r = 1 /\ Finished(r)

(***************************************************************************)
(* Lines 188-212, run once the lead is there: merge, push the user turn,   *)
(* arm the timer, call generateResponse (which posts unless the key is     *)
(* missing) and await the race.                                            *)
(***************************************************************************)
StartGeneration(r, message, uiSize, doc, how) ==
  LET merged == pushTurn(mergeExtracted(doc, extractUserInfo(message)), "user", message)
  IN  /\ loaded' = [ loaded EXCEPT ![r] = [ how |-> how, doc |-> doc ] ]
      /\ lead' = [ lead EXCEPT ![r] = merged ]
      /\ timer' = [ timer EXCEPT ![r] = "armed" ]
      /\ completion' = [ completion EXCEPT ![r] = Pending ]
      /\ race' = [ race EXCEPT ![r] = "pending" ]
      /\ posted' = [ posted EXCEPT ![r] =
                       IF Truthy(apiKey)
                         THEN requestMessages(message, contextWithUiInfo(merged, uiSize),
                                              merged.messageHistory)
                         ELSE << >> ]
      /\ pc' = [ pc EXCEPT ![r] = "race" ]

\* a handler that builds its Lead before it looks at the message
NothingStartedButLead(r) ==
  /\ loaded' = [ loaded EXCEPT ![r] = NotLoaded ]
  /\ lead' = [ lead EXCEPT ![r] = NewLead(nextId) ]
  /\ timer' = [ timer EXCEPT ![r] = "none" ]
  /\ completion' = [ completion EXCEPT ![r] = NotCalled ]
  /\ race' = [ race EXCEPT ![r] = "none" ]
  /\ posted' = [ posted EXCEPT ![r] = << >> ]

\* a new invocation has called nothing yet
NothingStarted(r) ==
  /\ loaded' = [ loaded EXCEPT ![r] = NotLoaded ]
  /\ lead' = [ lead EXCEPT ![r] = NoLead ]
  /\ timer' = [ timer EXCEPT ![r] = "none" ]
  /\ completion' = [ completion EXCEPT ![r] = NotCalled ]
  /\ race' = [ race EXCEPT ![r] = "none" ]
  /\ posted' = [ posted EXCEPT ![r] = << >> ]

\* lines 150-178, up to the first await
Receive(r, message, userId, uiSize) ==
  /\ served < MaxReqs
  /\ served' = served + 1
  /\ body' = [ body EXCEPT ![r] = [ message |-> message, userId |-> userId, uiSize |-> uiSize ] ]
  /\ botResponse' = [ botResponse EXCEPT ![r] = undefined ]
  /\ saved' = [ saved EXCEPT ![r] = << >> ]
  /\ saveResult' = [ saveResult EXCEPT ![r] = "none" ]
  /\ IF ~Truthy(message) THEN
       \* line 155
       /\ responses' = [ responses EXCEPT ![r] = << BadRequest >> ]
       /\ pc' = [ pc EXCEPT ![r] = "done" ]
       /\ NothingStarted(r)
       /\ UNCHANGED nextId
     ELSE IF ~IsString(message) THEN
       \* line 165: message.match is not a function, caught at line 246
       /\ responses' = [ responses EXCEPT ![r] = << ServerError >> ]
       /\ pc' = [ pc EXCEPT ![r] = "done" ]
       /\ NothingStarted(r)
       /\ UNCHANGED nextId
     ELSE IF userId # 0 THEN
       \* line 171: await Lead.findById(userId)
       /\ responses' = [ responses EXCEPT ![r] = << >> ]
       /\ pc' = [ pc EXCEPT ![r] = "find" ]
       /\ NothingStarted(r)
       /\ UNCHANGED nextId
     ELSE
       \* line 177
       /\ responses' = [ responses EXCEPT ![r] = << >> ]
       /\ StartGeneration(r, message, uiSize, NewLead(nextId), "created")
       /\ nextId' = nextId + 1
  /\ UNCHANGED << apiKey, store, call >>

\* a lookup without its own try/catch: the rejection reaches the outer catch
\* of lines 246-253
FindSettlesUncaught(r, storeOk) ==
  /\ pc[r] = "find"
  /\ IF ~storeOk THEN
       /\ Respond(r, ServerError)
       /\ loaded' = [ loaded EXCEPT ![r] = [ how |-> "failed", doc |-> NoLead ] ]
       /\ pc' = [ pc EXCEPT ![r] = "done" ]
       /\ UNCHANGED << nextId, lead, completion, timer, race, posted >>
     ELSE IF body[r].userId \in DOMAIN store THEN
       /\ StartGeneration(r, body[r].message, body[r].uiSize, store[body[r].userId], "stored")
       /\ UNCHANGED << nextId, responses >>
     ELSE
       /\ StartGeneration(r, body[r].message, body[r].uiSize, NewLead(nextId), "created")
       /\ nextId' = nextId + 1
       /\ UNCHANGED responses
  /\ UNCHANGED << apiKey, store, served, body, botResponse, saved, saveResult, call >>

\* line 171 settles: a rejection (lines 179-186), the stored document, or null
\* (lines 172-175)
FindSettles(r, storeOk) ==
  /\ pc[r] = "find"
  /\ IF ~storeOk THEN
       /\ Respond(r, StoreUnavailable)
       /\ loaded' = [ loaded EXCEPT ![r] = [ how |-> "failed", doc |-> NoLead ] ]
       /\ pc' = [ pc EXCEPT ![r] = "done" ]
       /\ UNCHANGED << nextId, lead, completion, timer, race, posted >>
     ELSE IF body[r].userId \in DOMAIN store THEN
       /\ StartGeneration(r, body[r].message, body[r].uiSize, store[body[r].userId], "stored")
       /\ UNCHANGED << nextId, responses >>
     ELSE
       /\ StartGeneration(r, body[r].message, body[r].uiSize, NewLead(nextId), "created")
       /\ nextId' = nextId + 1
       /\ UNCHANGED responses
  /\ UNCHANGED << apiKey, store, served, body, botResponse, saved, saveResult, call >>

\* a race that every settling promise decides anew
RaceAlwaysOpen(r) == race[r] # "none"

\* Promise.race (lines 209-212) is still pending
RaceUndecided(r) == race[r] = "pending"

\* lines 213-227: botResponse is there; push the bot turn and call lead.save()
Reply(r, reply, by) ==
  /\ race' = [ race EXCEPT ![r] = by ]
  /\ botResponse' = [ botResponse EXCEPT ![r] = reply ]
  /\ lead' = [ lead EXCEPT ![r] = pushTurn(@, "bot", reply) ]
  /\ saved' = [ saved EXCEPT ![r] = Append(@, pushTurn(lead[r], "bot", reply)) ]
  /\ saveResult' = [ saveResult EXCEPT ![r] = "pending" ]
  /\ pc' = [ pc EXCEPT ![r] = "save" ]

\* the promise of generateResponse settles; the race takes it if still pending
CompletionSettles(r, outcome) ==
  /\ completion[r] = Pending
  /\ (outcome = NoKeyOutcome) <=> ~Truthy(apiKey)
  /\ completion' = [ completion EXCEPT ![r] = outcome ]
  /\ IF RaceUndecided(r)
       THEN Reply(r, generateResponse(body[r].message, lead[r], MistralGenerateResponse(outcome)),
                  "completion")
       ELSE UNCHANGED << race, botResponse, lead, saved, saveResult, pc >>
  /\ UNCHANGED << apiKey, store, nextId, served, body, loaded, timer, posted, responses, call >>

\* the 15 s timer rejects timeoutPromise; the race takes it if still pending
\* (lines 213-217).  Without a key generateResponse settles before any timer can.
TimerFires(r) ==
  /\ timer[r] = "armed"
  /\ RaceUndecided(r) => Truthy(apiKey)
  /\ timer' = [ timer EXCEPT ![r] = "fired" ]
  /\ IF RaceUndecided(r)
       THEN Reply(r, generateTemplateResponse(body[r].message, lead[r]), "timer")
       ELSE UNCHANGED << race, botResponse, lead, saved, saveResult, pc >>
  /\ UNCHANGED << apiKey, store, nextId, served, body, loaded, completion, posted, responses,
                  call >>

\* lead.save() writes the document
Persist(doc) ==
  [ id \in DOMAIN store \cup { doc._id } |-> IF id = doc._id THEN doc ELSE store[id] ]

\* a success body that echoes the userId of the request
SavedJsonEchoingRequest(r) ==
  Json(200, TRUE, botResponse[r], body[r].userId, undefined, undefined)

\* lines 240-244
SavedJson(r) == Json(200, TRUE, botResponse[r], lead[r]._id, undefined, undefined)

\* a save failure answered like a success
SaveFailedJsonSilent(r) == Json(200, TRUE, botResponse[r], lead[r]._id, undefined, undefined)

\* lines 231-236
SaveFailedJson(r) ==
  Json(200, TRUE, botResponse[r], lead[r]._id, "Your conversation history may not be saved",
       undefined)

\* lines 226-244: lead.save() settles
SaveSettles(r, storeOk) ==
  /\ pc[r] = "save"
  /\ IF storeOk
       THEN /\ store' = Persist(lead[r])
            /\ saveResult' = [ saveResult EXCEPT ![r] = "ok" ]
            /\ Respond(r, SavedJson(r))
       ELSE /\ UNCHANGED store
            /\ saveResult' = [ saveResult EXCEPT ![r] = "failed" ]
            /\ Respond(r, SaveFailedJson(r))
  /\ pc' = [ pc EXCEPT ![r] = "done" ]
  /\ UNCHANGED << apiKey, nextId, served, body, loaded, lead, completion, timer, race, posted,
                  botResponse, saved, call >>

\* the userId a client can send: none, the _id of a lead created so far, or a stale one
UserIds == { 0, StaleId } \cup 1..(nextId - 1)

Next ==
  \/ \E r \in Reqs, message \in BodyMessages, userId \in UserIds, uiSize \in UiSizes :
       Serial(r) /\ Receive(r, message, userId, uiSize)
  \/ \E r \in Reqs, storeOk \in BOOLEAN : FindSettles(r, storeOk)
  \/ \E r \in Reqs, outcome \in Outcomes \cup { NoKeyOutcome } : CompletionSettles(r, outcome)
  \/ \E r \in Reqs : TimerFires(r)
  \/ \E r \in Reqs, storeOk \in BOOLEAN : SaveSettles(r, storeOk)

Spec == Init /\ [][Next]_vars

\* What the runtime sees to: an armed timer fires (setTimeout, lines 204-206),
\* a save() that was called settles (line 227), and without a key
\* generateResponse settles at once (mistralService.js lines 22-25).  Nothing
\* makes the completion endpoint answer.  Each step is named by what it does to
\* the one variable that records it: only TimerFires(r) takes timer[r] from
\* armed to fired, only SaveSettles(r, _) takes pc[r] from save to done, only
\* CompletionSettles(r, NoKeyOutcome) settles a call made without a key, and
\* each has the guard of that action.
TimerIsDue(r) ==
  /\ timer[r] = "armed"
  /\ RaceUndecided(r) => Truthy(apiKey)
  /\ timer' = [ timer EXCEPT ![r] = "fired" ]

SaveIsDue(r) ==
  /\ pc[r] = "save"
  /\ pc' = [ pc EXCEPT ![r] = "done" ]

NoKeyIsDue(r) ==
  /\ completion[r] = Pending
  /\ ~Truthy(apiKey)
  /\ completion' = [ completion EXCEPT ![r] = NoKeyOutcome ]

Fairness ==
  /\ WF_timer(\E r \in Reqs : TimerIsDue(r))
  /\ WF_pc(\E r \in Reqs : SaveIsDue(r))
  /\ WF_completion(\E r \in Reqs : NoKeyIsDue(r))

FairSpec == Spec /\ Fairness

(***************************************************************************)
(* generateTemplateResponse by itself: one call on a message and a set of  *)
(* lead attributes drawn at the start.                                     *)
(***************************************************************************)
TemplateMessages ==
  { "", "ok", "hi", "Hello there", "hey", "Greetings!", "history of the area 51",
    "i am Bob", "my budget is 500", "a house in the area north", "what do you have" }

TemplateLeads ==
  { [ NoLead EXCEPT !.name = n, !.propertyType = t, !.budget = b, !.preferredLocation = l ] :
      n \in { undefined, "", "Alice" }, t \in { undefined, "villa" },
      b \in { undefined, "500" }, l \in { undefined, "Pune" } }

TemplateInit ==
  /\ InitServer
  /\ apiKey = "key"
  /\ call \in [ fn : { "generateTemplateResponse" }, message : TemplateMessages,
                leadInfo : TemplateLeads, result : { undefined } ]

CallTemplate ==
  /\ call.fn = "generateTemplateResponse"
  /\ call.result = undefined
  /\ call' = [ call EXCEPT !.result = generateTemplateResponse(call.message, call.leadInfo) ]
  /\ UNCHANGED << apiKey, store, nextId, served, reqVars >>

TemplateNext == CallTemplate

TemplateSpec == TemplateInit /\ [][TemplateNext]_vars

(***************************************************************************)
(* The pure functions by themselves: one call of formatNotionStyleResponse *)
(* (and a second one on what it returned), of extractUserInfo, or of the   *)
(* message list MistralService.generateResponse builds, on an input drawn  *)
(* at the start.  A result is << >> until the call has returned.           *)
(***************************************************************************)
\* how many fragments a raw completion text is made of at most
MaxFragments == 4

\* how many turns a history passed to the completion client has at most
MaxTurns == 12

\* pieces of completion texts: a word, a question mark, a line break, a hyphen
\* bullet and a heading mark
Fragments == { "a", "?", "\n", "- ", "# " }

RECURSIVE Join(_)
Join(pieces) == IF pieces = << >> THEN "" ELSE Head(pieces) \o Join(Tail(pieces))

RawTexts == { Join(pieces) : pieces \in UNION { [ 1..n -> Fragments ] : n \in 0..MaxFragments } }

\* what stands before and after "my name is Alice" in a message
BeforeName == { "", "Hi, ", "well ", "I am new here, " }
AfterName == { "", ".", "!", " Smith", " and I need a flat", "\nthanks" }

NameMessages == { b \o "my name is Alice" \o a : b \in BeforeName, a \in AfterName }

Senders == << "user", "bot", "agent" >>

\* a history of n turns, each with its own text, whose senders start at the k-th
TurnsOf(n, k) ==
  [ i \in 1..n |-> [ sender |-> Senders[((i + k) % 3) + 1], message |-> "turn " \o ToString(i) ] ]

Histories == { TurnsOf(n, k) : n \in 0..MaxTurns, k \in 0..2 }

ClientLeads ==
  { contextWithUiInfo(NoLead, << >>),
    contextWithUiInfo([ NoLead EXCEPT !.name = "Alice" ], << [ width |-> 800, height |-> 600 ] >>) }

FormatCalls ==
  [ fn : { "formatNotionStyleResponse" }, response : RawTexts, result : { << >> },
    again : { << >> } ]

ExtractCalls == [ fn : { "extractUserInfo" }, message : NameMessages, result : { << >> } ]

ClientCalls ==
  [ fn : { "MistralService.generateResponse" }, userMessage : { "hi", "turn 1" },
    leadInfo : ClientLeads, messageHistory : Histories, result : { << >> } ]

FunctionInit ==
  /\ InitServer
  /\ apiKey = "key"
  /\ call \in FormatCalls \cup ExtractCalls \cup ClientCalls

CallFormat ==
  /\ call.fn = "formatNotionStyleResponse"
  /\ call.result = << >>
  /\ call' = [ call EXCEPT !.result = << formatNotionStyleResponse(call.response) >> ]
  /\ UNCHANGED << apiKey, store, nextId, served, reqVars >>

\* the formatter called on its own output
CallFormatAgain ==
  /\ call.fn = "formatNotionStyleResponse"
  /\ call.result # << >>
  /\ call.again = << >>
  /\ call' = [ call EXCEPT !.again = << formatNotionStyleResponse(call.result[1]) >> ]
  /\ UNCHANGED << apiKey, store, nextId, served, reqVars >>

CallExtract ==
  /\ call.fn = "extractUserInfo"
  /\ call.result = << >>
  /\ call' = [ call EXCEPT !.result = << extractUserInfo(call.message) >> ]
  /\ UNCHANGED << apiKey, store, nextId, served, reqVars >>

\* mistralService.js lines 28-53: the list the service posts
CallRequestMessages ==
  /\ call.fn = "MistralService.generateResponse"
  /\ call.result = << >>
  /\ call' = [ call EXCEPT !.result =
                 << requestMessages(call.userMessage, call.leadInfo, call.messageHistory) >> ]
  /\ UNCHANGED << apiKey, store, nextId, served, reqVars >>

FunctionNext ==
  \/ CallFormat
  \/ CallFormatAgain
  \/ CallExtract
  \/ CallRequestMessages

FunctionSpec == FunctionInit /\ [][FunctionNext]_vars

(***************************************************************************)
(* getChatHistory (lines 257-280) next to processMessage: GET requests are *)
(* received one at a time, between and during the POST requests; `call`    *)
(* holds the one in hand: its userId, how its findById settled, and the    *)
(* response it sent (<< >> until then).                                    *)
(***************************************************************************)
HistoryMessages == { "hi", "a house" }

\* res.status(status).json({...}); history is << >> when the body has none
HistoryJson(status, success, history, error) ==
  [ status |-> status, success |-> success, history |-> history, error |-> error ]

\* line 262
UserIdRequired == HistoryJson(400, FALSE, << >>, "User ID is required")
\* line 268
LeadNotFound == HistoryJson(404, FALSE, << >>, "Lead not found")
\* line 278
HistoryServerError == HistoryJson(500, FALSE, << >>, "Server error")
\* lines 271-274
HistoryFound(doc) == HistoryJson(200, TRUE, << doc.messageHistory >>, undefined)

HistoryInHand == call.fn = "getChatHistory" /\ call.result = << >>

\* lines 258-265, up to the await
ReceiveHistory(userId) ==
  /\ ~HistoryInHand
  /\ call' = [ fn |-> "getChatHistory", userId |-> userId,
               lookup |-> IF userId = 0 THEN "none" ELSE "pending",
               result |-> IF userId = 0 THEN << UserIdRequired >> ELSE << >> ]
  /\ UNCHANGED << apiKey, store, nextId, served, reqVars >>

\* a handler that reads the history of whatever findById gave: for null the
\* read throws and the catch answers
HistoryFindSettlesUnchecked(storeOk) ==
  /\ HistoryInHand
  /\ call' = [ call EXCEPT
                 !.lookup = IF storeOk THEN "answered" ELSE "failed",
                 !.result = IF storeOk /\ call.userId \in DOMAIN store
                              THEN << HistoryFound(store[call.userId]) >>
                              ELSE << HistoryServerError >> ]
  /\ UNCHANGED << apiKey, store, nextId, served, reqVars >>

\* line 265 settles: a rejection (lines 276-279), null (lines 267-269) or the
\* stored document (lines 271-274)
HistoryFindSettles(storeOk) ==
  /\ HistoryInHand
  /\ call' = [ call EXCEPT
                 !.lookup = IF storeOk THEN "answered" ELSE "failed",
                 !.result = IF ~storeOk THEN << HistoryServerError >>
                            ELSE IF call.userId \in DOMAIN store
                              THEN << HistoryFound(store[call.userId]) >>
                              ELSE << LeadNotFound >> ]
  /\ UNCHANGED << apiKey, store, nextId, served, reqVars >>

HistoryNext ==
  \/ \E r \in Reqs, message \in HistoryMessages, userId \in UserIds, uiSize \in UiSizes :
       Serial(r) /\ Receive(r, message, userId, uiSize)
  \/ \E r \in Reqs, storeOk \in BOOLEAN : FindSettles(r, storeOk)
  \/ \E r \in Reqs, outcome \in Outcomes \cup { NoKeyOutcome } : CompletionSettles(r, outcome)
  \/ \E r \in Reqs : TimerFires(r)
  \/ \E r \in Reqs, storeOk \in BOOLEAN : SaveSettles(r, storeOk)
  \/ \E userId \in UserIds : ReceiveHistory(userId)
  \/ \E storeOk \in BOOLEAN : HistoryFindSettles(storeOk)

HistorySpec == Init /\ [][HistoryNext]_vars

(***************************************************************************)
(* processMessage with requests in flight together: a request is received  *)
(* by any invocation that has nothing left to run, while another may stand *)
(* at one of its awaits.  The store holds one lead from an earlier         *)
(* conversation, and save() writes the document it is handed over the      *)
(* stored one.                                                             *)
(***************************************************************************)
ConcMessages == { "hi", "a house" }

\* a request carries no userId or that of the stored lead
ConcUserIds == { 0, 1 }

\* the lead a first "hi", answered from the template, left in the store
ExistingLead ==
  pushTurn(pushTurn(NewLead(1), "user", "hi"), "bot", GreetingReply(NewLead(1)))

ConcInit ==
  /\ apiKey \in { undefined, "key" }
  /\ store = << ExistingLead >>
  /\ nextId = 2
  /\ served = 0
  /\ pc = [ r \in Reqs |-> "idle" ]
  /\ body = [ r \in Reqs |-> NoBody ]
  /\ loaded = [ r \in Reqs |-> NotLoaded ]
  /\ lead = [ r \in Reqs |-> NoLead ]
  /\ completion = [ r \in Reqs |-> NotCalled ]
  /\ timer = [ r \in Reqs |-> "none" ]
  /\ race = [ r \in Reqs |-> "none" ]
  /\ posted = [ r \in Reqs |-> << >> ]
  /\ botResponse = [ r \in Reqs |-> undefined ]
  /\ saved = [ r \in Reqs |-> << >> ]
  /\ saveResult = [ r \in Reqs |-> "none" ]
  /\ responses = [ r \in Reqs |-> << >> ]
  /\ call = NoCall

ConcNext ==
  \/ \E r \in Reqs, message \in ConcMessages, userId \in ConcUserIds, uiSize \in UiSizes :
       Finished(r) /\ Receive(r, message, userId, uiSize)
  \/ \E r \in Reqs, storeOk \in BOOLEAN : FindSettles(r, storeOk)
  \/ \E r \in Reqs, outcome \in Outcomes \cup { NoKeyOutcome } : CompletionSettles(r, outcome)
  \/ \E r \in Reqs : TimerFires(r)
  \/ \E r \in Reqs, storeOk \in BOOLEAN : SaveSettles(r, storeOk)

ConcSpec == ConcInit /\ [][ConcNext]_vars

(***************************************************************************)
(* processMessage, one request at a time, on messages that give a property *)
(* type without a name, and a name pattern with nothing but white space    *)
(* in its group.                                                           *)
(***************************************************************************)
MergeMessages == { "hi", "a house", "i am  ", "i am  25, want a house" }

MergeNext ==
  \/ \E r \in Reqs, message \in MergeMessages, userId \in UserIds, uiSize \in UiSizes :
       Serial(r) /\ Receive(r, message, userId, uiSize)
  \/ \E r \in Reqs, storeOk \in BOOLEAN : FindSettles(r, storeOk)
  \/ \E r \in Reqs, outcome \in Outcomes \cup { NoKeyOutcome } : CompletionSettles(r, outcome)
  \/ \E r \in Reqs : TimerFires(r)
  \/ \E r \in Reqs, storeOk \in BOOLEAN : SaveSettles(r, storeOk)

MergeSpec == Init /\ [][MergeNext]_vars

(***************************************************************************)
(* Claims                                                                  *)
(***************************************************************************)
\* the failures MistralService.generateResponse meets inside its try block
ServiceFailures == { "noKey", "transport", "status", "badShape" }

UserTurn(r) == [ sender |-> "user", message |-> body[r].message ]
BotTurn(reply) == [ sender |-> "bot", message |-> reply ]

\* invocation r sent exactly one response, with this status
Answered(r, status) == Len(responses[r]) = 1 /\ responses[r][1].status = status

Attributes == { "name", "budget", "preferredLocation", "propertyType" }

\* C1: whenever the completion call failed (no key, transport error, non-2xx
\* or malformed shape) and its result was taken as the reply, the reply is the
\* template responder's reply for the same message and lead attributes.
C1_FailedCompletionRepliesTemplate ==
  \A r \in Reqs :
    (race[r] = "completion" /\ completion[r].kind \in ServiceFailures)
      => botResponse[r] = generateTemplateResponse(body[r].message, lead[r])

\* C2: a request with a non-empty string message whose lead was found or
\* created is eventually answered, once, with 200, success and a reply string,
\* whatever the completion call does; it never sends anything else.
C2_GenerationAlwaysAnswers200 ==
  /\ \A r \in Reqs :
       (pc[r] = "race")
         ~> (/\ pc[r] = "done"
             /\ Answered(r, 200)
             /\ responses[r][1].success
             /\ IsString(responses[r][1].response))
  /\ [](\A r \in Reqs :
          loaded[r].how \in { "stored", "created" }
            => \A j \in 1..Len(responses[r]) :
                 /\ responses[r][j].status = 200
                 /\ responses[r][j].success
                 /\ IsString(responses[r][j].response))

\* C2 witness: a request was answered 200 with the template reply while its
\* completion call had still not settled.
C2_Witness ==
  \E r \in Reqs :
    /\ pc[r] = "done"
    /\ Answered(r, 200)
    /\ race[r] = "timer"
    /\ completion[r] = Pending

\* C3: for a request answered 200, the one document handed to save() holds
\* the history as loaded, then the user turn with the request's message, then
\* the bot turn with the reply that was returned.
C3_SavedHistoryIsLoadedPlusTwoTurns ==
  \A r \in Reqs :
    (Len(responses[r]) >= 1 /\ responses[r][1].status = 200)
      => /\ Len(saved[r]) = 1
         /\ saved[r][1].messageHistory =
              loaded[r].doc.messageHistory
                \o << UserTurn(r), BotTurn(responses[r][1].response) >>

\* C3 witness: a request on a stored lead with earlier turns was answered 200.
C3_Witness ==
  \E r \in Reqs :
    /\ Answered(r, 200)
    /\ loaded[r].how = "stored"
    /\ Len(loaded[r].doc.messageHistory) >= 2

\* the attributes of a lead after the merge of lines 188-192, said from the
\* extraction: the extracted value where it is non-empty, else the value the
\* lead had
MergedAs(message, before, after) ==
  LET extracted == extractUserInfo(message)
  IN  \A a \in Attributes :
        after[a] = IF Truthy(extracted[a]) THEN extracted[a] ELSE before[a]

\* C4: with requests served one at a time, no attribute of a lead is ever the
\* empty string, an attribute that is set stays set, and an attribute changes
\* only to the non-empty value the current message's extraction gives for it;
\* this holds of the document a request works on and of the stored document.
C4_AttributesOnlyOverwrittenByExtraction ==
  [][/\ \A r \in Reqs :
          (loaded'[r].how \in { "stored", "created" } /\ lead'[r] # lead[r])
            => /\ MergedAs(body'[r].message, loaded'[r].doc, lead'[r])
               /\ \A a \in Attributes : lead'[r][a] # ""
               /\ \A a \in Attributes : Truthy(loaded'[r].doc[a]) => Truthy(lead'[r][a])
     /\ \A id \in DOMAIN store :
          /\ id \in DOMAIN store'
          /\ \A a \in Attributes : Truthy(store[id][a]) => Truthy(store'[id][a])
          /\ store'[id] # store[id]
               => \E r \in Reqs : lead[r]._id = id /\ MergedAs(body[r].message, store[id], store'[id])]_vars

\* C4 witness: a request overwrote the stored name of a lead with the name its
\* message gave, and was saved.
C4_Witness ==
  \E r \in Reqs :
    /\ pc[r] = "done"
    /\ saveResult[r] = "ok"
    /\ loaded[r].how = "stored"
    /\ Truthy(loaded[r].doc.name)
    /\ store[lead[r]._id].name # loaded[r].doc.name

AllKnown(leadInfo) ==
  /\ Truthy(leadInfo.name)
  /\ Truthy(leadInfo.propertyType)
  /\ Truthy(leadInfo.budget)
  /\ Truthy(leadInfo.preferredLocation)

TemplateCalled == call.fn = "generateTemplateResponse" /\ call.result # undefined

\* C5 as claimed: with all four attributes set, the template responder returns
\* the full summary whatever the message is.
C5_SummaryWhateverTheMessage ==
  (TemplateCalled /\ AllKnown(call.leadInfo)) => call.result = SummaryReply(call.leadInfo)

\* C5 as amended: with all four attributes set, the template responder returns
\* the full summary for every message that does not start with hi, hello, hey
\* or greetings (letter case ignored), and the greeting by name for one that does.
C5_SummaryUnlessGreeting ==
  (TemplateCalled /\ AllKnown(call.leadInfo))
    => call.result =
         IF \E g \in { "hi", "hello", "hey", "greetings" } :
              /\ Len(call.message) >= Len(g)
              /\ toLowerCase(SubSeq(call.message, 1, Len(g))) = g
           THEN "Hello " \o call.leadInfo.name
                  \o "! How can I help you with your real estate search today?"
           ELSE SummaryReply(call.leadInfo)

\* C5 witness: the responder was called with all four attributes set on a
\* message that names a budget, and returned the summary.
C5_Witness ==
  /\ TemplateCalled
  /\ AllKnown(call.leadInfo)
  /\ call.message = "my budget is 500"
  /\ call.result = SummaryReply(call.leadInfo)

\* C6: when the completion call fails (no key, transport error, non-2xx or
\* malformed shape), MistralService.generateResponse rejects and returns no
\* reply of its own.
C6_ServiceRejectsOnFailure ==
  \A r \in Reqs :
    completion[r].kind \in ServiceFailures => MistralGenerateResponse(completion[r]).threw

\* C7: the promise that settles first alone decides the reply: the template
\* reply when it is the timer, the result of generateResponse when it is the
\* completion; from then on the reply, the document (one bot turn after the
\* user turn), the document handed to save() and the single response stay as
\* they are, whatever settles later.
C7_FirstSettledDecides ==
  [][\A r \in Reqs :
       /\ (race[r] = "pending" /\ race'[r] = "timer")
            => botResponse'[r] = generateTemplateResponse(body[r].message, lead[r])
       /\ (race[r] = "pending" /\ race'[r] = "completion")
            => botResponse'[r] =
                 generateResponse(body[r].message, lead[r],
                                  MistralGenerateResponse(completion'[r]))
       /\ (race[r] = "pending" /\ race'[r] # "pending")
            => /\ race'[r] \in { "timer", "completion" }
               /\ race'[r] = "timer" <=> timer'[r] # timer[r]
               /\ race'[r] = "completion" <=> completion'[r] # completion[r]
               /\ lead'[r].messageHistory =
                    loaded[r].doc.messageHistory \o << UserTurn(r), BotTurn(botResponse'[r]) >>
               /\ saved'[r] = << lead'[r] >>
               /\ responses'[r] = << >>
       /\ (race[r] \in { "timer", "completion" } /\ served' = served)
            => /\ race'[r] = race[r]
               /\ botResponse'[r] = botResponse[r]
               /\ lead'[r] = lead[r]
               /\ saved'[r] = saved[r]
               /\ Len(responses'[r]) <= 1
               /\ Len(responses'[r]) = 1 => responses'[r][1].response = botResponse[r]]_vars

\* C7 witness: the timer decided the race, the request was answered, and the
\* completion call settled afterwards.
C7_Witness ==
  \E r \in Reqs :
    /\ race[r] = "timer"
    /\ pc[r] = "done"
    /\ completion[r].kind = "text"

\* C8: a request with a userId whose lookup did not fail is answered 200; when
\* the userId resolved, with that same identifier; when it did not, a new lead
\* was created, the message was processed on it, and the response carries the
\* new lead's identifier.
C8_UnknownUserIdCreatesLead ==
  \A r \in Reqs :
    (body[r].userId # 0 /\ loaded[r].how \in { "stored", "created" })
      => /\ pc[r] \in { "race", "save" }
              => /\ loaded[r].how = "stored" <=> body[r].userId \in DOMAIN store
                 /\ loaded[r].how = "stored" => loaded[r].doc = store[body[r].userId]
         /\ loaded[r].how = "created"
              => /\ loaded[r].doc = NewLead(lead[r]._id)
                 /\ lead[r]._id # body[r].userId
                 /\ lead[r]._id = nextId - 1
         /\ pc[r] = "done"
              => /\ Answered(r, 200)
                 /\ responses[r][1].userId = lead[r]._id
                 /\ loaded[r].how = "stored" => responses[r][1].userId = body[r].userId
                 /\ lead[r].messageHistory =
                      loaded[r].doc.messageHistory
                        \o << UserTurn(r), BotTurn(responses[r][1].response) >>

\* C8 witness: a request with a stale userId was answered 200 on a new lead.
C8_Witness ==
  \E r \in Reqs :
    /\ pc[r] = "done"
    /\ body[r].userId = StaleId
    /\ loaded[r].how = "created"
    /\ Answered(r, 200)

\* C9: a request whose lead lookup failed is answered 503 and nothing else
\* happened in it: no completion call, no timer, no reply, no turn, no save;
\* the store is as it was.
C9_LookupFailureStopsProcessing ==
  [][\A r \in Reqs :
       loaded'[r].how = "failed"
         => /\ pc'[r] = "done"
            /\ responses'[r] = << StoreUnavailable >>
            /\ posted'[r] = << >>
            /\ completion'[r] = NotCalled
            /\ timer'[r] = "none"
            /\ race'[r] = "none"
            /\ botResponse'[r] = undefined
            /\ lead'[r] = NoLead
            /\ saved'[r] = << >>
            /\ saveResult'[r] = "none"
            /\ store' = store]_vars

\* C9 witness: the lookup of a stored lead failed.
C9_Witness ==
  \E r \in Reqs :
    /\ loaded[r].how = "failed"
    /\ body[r].userId \in DOMAIN store

\* C10: a failed save is answered 200 with success, the computed reply, the
\* lead's identifier and a warning; a response carries a warning exactly when
\* the save failed.
C10_WarningIffSaveFailed ==
  \A r \in Reqs :
    /\ saveResult[r] = "failed"
         => /\ Answered(r, 200)
            /\ responses[r][1].success
            /\ responses[r][1].response = botResponse[r]
            /\ IsString(botResponse[r])
            /\ responses[r][1].userId = lead[r]._id
    /\ \A j \in 1..Len(responses[r]) :
         responses[r][j].warning # undefined <=> saveResult[r] = "failed"

\* C10 witness: a save failed and the request was answered.
C10_Witness ==
  \E r \in Reqs : saveResult[r] = "failed" /\ pc[r] = "done"

\* C11: a POST /message without a message (absent or empty) is answered 400
\* and touches no lead: nothing is looked up, created, merged or saved, the
\* completion endpoint is not called, and the store and the id counter stay.
C11_MissingMessageTouchesNothing ==
  [][\A r \in Reqs :
       (pc'[r] = "done" /\ ~Truthy(body'[r].message))
         => /\ responses'[r] = << BadRequest >>
            /\ loaded'[r] = NotLoaded
            /\ lead'[r] = NoLead
            /\ completion'[r] = NotCalled
            /\ timer'[r] = "none"
            /\ posted'[r] = << >>
            /\ saved'[r] = << >>
            /\ saveResult'[r] = "none"
            /\ (served' # served /\ Finished(r)) => (store' = store /\ nextId' = nextId)]_vars

\* C11 witness: a request without message was answered 400 while a lead was
\* stored, and a request that carried its userId came before.
C11_Witness ==
  \E r \in Reqs :
    /\ pc[r] = "done"
    /\ body[r].message = undefined
    /\ body[r].userId \in DOMAIN store
    /\ responses[r] = << BadRequest >>

Formatted == call.fn = "formatNotionStyleResponse" /\ call.result # << >>

\* C12: the formatter's output holds at most one question mark; on a text with
\* two or more it is the formatted text cut right after its first question
\* mark, and on a text with at most one it is the whole formatted text.
C12_AtMostOneQuestion ==
  Formatted
    => LET full == withHeadings(withBullets(withParagraphs(call.response)))
           out  == call.result[1]
       IN  /\ Cardinality(QuestionMarks(out)) <= 1
           /\ Cardinality(QuestionMarks(call.response)) >= 2
                => /\ Len(out) >= 1
                   /\ Char(out, Len(out)) = "?"
                   /\ QuestionMarks(out) = { Len(out) }
                   /\ out = SubSeq(full, 1, Len(out))
                   /\ Len(out) < Len(full)
           /\ Cardinality(QuestionMarks(call.response)) <= 1 => out = full

\* C12 witness: a heading with two question marks was cut after the first.
C12_Witness ==
  /\ Formatted
  /\ call.response = "# a??"
  /\ call.result[1] = "A?"

\* C13: formatting the formatter's output again gives that output.
C13_FormatterIdempotent ==
  (Formatted /\ call.again # << >>) => call.again = call.result

\* C14: when its lookup is answered, GET /history/:userId sends 404 for a
\* userId no stored lead has, and for a stored lead 200 with that lead's
\* persisted turns as they stand in the store: user turn, bot turn, and so on,
\* in the order the requests appended them.
C14_HistoryOfStoredLead ==
  [][(HistoryInHand /\ call'.lookup = "answered")
       => IF call.userId \in DOMAIN store
            THEN LET h == store[call.userId].messageHistory
                 IN  /\ call'.result = << HistoryJson(200, TRUE, << h >>, undefined) >>
                     /\ \A i \in 1..Len(h) :
                          h[i].sender = IF i % 2 = 1 THEN "user" ELSE "bot"
                     /\ \A r \in Reqs :
                          (Finished(r) /\ saveResult[r] = "ok" /\ lead[r]._id = call.userId)
                            => /\ Len(h) >= 2
                               /\ h[Len(h) - 1] = UserTurn(r)
                               /\ h[Len(h)] = BotTurn(botResponse[r])
                               /\ SubSeq(h, 1, Len(h) - 2) = loaded[r].doc.messageHistory
            ELSE call'.result = << LeadNotFound >>]_vars

\* C14 witness: the history of a lead two requests wrote to was sent, four turns.
C14_Witness ==
  /\ call.fn = "getChatHistory"
  /\ call.result # << >>
  /\ call.result[1].status = 200
  /\ Len(call.result[1].history[1]) = 4
  /\ call.result[1].history[1][1].message # call.result[1].history[1][3].message

Listed == call.fn = "MistralService.generateResponse" /\ call.result # << >>

\* C15: the list sent to the completion endpoint is the system message, then
\* the last 10 turns of the history passed in (all of them when there are
\* fewer), in their order, sender user as role user and any other sender as
\* role assistant, then the current user message; it has at most 12 entries.
C15_MessageListShape ==
  Listed
    => LET list   == call.result[1]
           turns  == call.messageHistory
           kept   == IF Len(turns) < 10 THEN Len(turns) ELSE 10
           first  == Len(turns) - kept
       IN  /\ Len(list) = kept + 2
           /\ Len(list) <= 12
           /\ list[1] = createSystemMessage(call.leadInfo)
           /\ list[1].role = "system"
           /\ \A j \in 1..kept :
                /\ list[1 + j].content = turns[first + j].message
                /\ list[1 + j].role =
                     IF turns[first + j].sender = "user" THEN "user" ELSE "assistant"
           /\ list[Len(list)] = [ role |-> "user", content |-> call.userMessage ]

\* C15 witness: a history of 12 turns was cut to its last 10, the 3rd to the 12th.
C15_Witness ==
  /\ Listed
  /\ Len(call.messageHistory) = 12
  /\ Len(call.result[1]) = 12
  /\ call.result[1][2].content = "turn 3"
  /\ call.result[1][11].content = "turn 12"
  /\ \E j \in 2..11 : call.messageHistory[j + 1].sender = "agent" /\ call.result[1][j].role = "assistant"

\* C16: for every message that contains "my name is Alice", whatever stands
\* before and after it, extractUserInfo gives the name "Alice".
C16_NameIsAlice ==
  (call.fn = "extractUserInfo" /\ call.result # << >> /\ includes(call.message, "my name is Alice"))
    => call.result[1].name = "Alice"

Holds(history, turn) == \E i \in 1..Len(history) : history[i] = turn

\* C17: once two requests for the same stored lead have both run to their end,
\* however their steps interleaved, the stored history still starts with the
\* turns that were stored before, and holds the user turn and the bot turn of
\* each of the two that was answered 200 without a warning.
C17_NoTurnLostUnderInterleaving ==
  (/\ served = 2
   /\ \A r \in Reqs : Finished(r) /\ pc[r] = "done" /\ loaded[r].how = "stored")
    => /\ SubSeq(store[1].messageHistory, 1, 2) = ExistingLead.messageHistory
       /\ \A r \in Reqs :
            (Answered(r, 200) /\ responses[r][1].warning = undefined)
              => /\ Holds(store[1].messageHistory, UserTurn(r))
                 /\ Holds(store[1].messageHistory, BotTurn(botResponse[r]))

\* C18: the userId of every 200 response, with or without a warning, is the
\* _id of a lead the store holds, so that a request carrying it finds that lead.
C18_ReturnedUserIdIsStored ==
  \A r \in Reqs :
    (pc[r] = "done" /\ Answered(r, 200)) => responses[r][1].userId \in DOMAIN store

\* C19: the list a request posts to the completion endpoint is the system
\* message, the turns of the conversation before the current message (the last
\* 10 at most), and the current message as the last entry: the current
\* message is there once and no turn twice.
C19_CurrentMessageSentOnce ==
  \A r \in Reqs :
    posted[r] # << >>
      => LET list == posted[r]
             n    == Len(list)
         IN  /\ list[n] = [ role |-> "user", content |-> body[r].message ]
             /\ SubSeq(list, 2, n - 1) = formatMessageHistory(loaded[r].doc.messageHistory)

\* the reply of invocation r came from generateTemplateResponse: the timer won
\* the race, or the completion had no content and the catch of line 116 ran
RepliedFromTemplate(r) ==
  \/ race[r] = "timer"
  \/ race[r] = "completion" /\ completion[r].kind = "noContent"

AsksName(reply) ==
  \/ includes(reply, "May I know your name")

AsksPropertyType(reply) ==
  \/ includes(reply, "What kind of property are you looking for?")
  \/ includes(reply, "What type of property are you interested in?")

AsksBudget(reply) ==
  \/ includes(reply, "Do you have a specific budget in mind?")
  \/ includes(reply, "What's your budget range")

AsksLocation(reply) ==
  \/ includes(reply, "do you have a preferred location or area in mind?")
  \/ includes(reply, "Which area or location are you interested in?")

\* C20: a reply that comes from the template responder asks for the name only
\* while the lead, after the merge of the current message, has no name, for
\* the property type only while it has no propertyType, for the budget only
\* while it has no budget, for the location only while it has no
\* preferredLocation.
C20_TemplateAsksOnlyForUnsetAttributes ==
  \A r \in Reqs :
    RepliedFromTemplate(r)
      => /\ botResponse[r] = generateTemplateResponse(body[r].message, lead[r])
         /\ AsksName(botResponse[r]) => ~Truthy(lead[r].name)
         /\ AsksPropertyType(botResponse[r]) => ~Truthy(lead[r].propertyType)
         /\ AsksBudget(botResponse[r]) => ~Truthy(lead[r].budget)
         /\ AsksLocation(botResponse[r]) => ~Truthy(lead[r].preferredLocation)

====
